---- MODULE Spec2Model ----
(***************************************************************************)
(* The tokenizer of cfmt (src/lexer/lexer.rs): a Lexer owns the source as *)
(* a vector of characters and a cursor, and Iterator::next yields one      *)
(* Result<Token, LexerError> per pull.                                     *)
(*                                                                         *)
(* A character is a one-character string; three characters outside ASCII   *)
(* are written by their code point.  Indices are 0-based as in the code,   *)
(* so the character at cursor i is source[i + 1].                          *)
(***************************************************************************)
EXTENDS Naturals, Sequences, FiniteSets

VARIABLES
    source,  \* Lexer.source: the characters of the input
    index,   \* Lexer.index: position of the next character to read
    item,    \* what the last call of Iterator::next returned
    out,     \* the items yielded so far (every Some(..) returned), in order
    prev,    \* the cursor when the last pull began
    lead,    \* the cursor of the last pull after its leading whitespace
    odd      \* whether the number of pulls made so far is odd

vars == <<source, index, item, out, prev, lead, odd>>

-----------------------------------------------------------------------------
(* Bounds and inputs *)

\* Longest enumerated source, in characters.
MaxLen == 3

\* Items a consumer pulls beyond the length of the source before it stops
\* (only a repeating error item goes that far).
MaxExtra == 2

\* The characters sources are enumerated over: one or more of every class
\* the lexer tells apart.
Alphabet ==
    {" ", "\n", "+", "-", ">", "=", "!", "<", "/", "*", "\"", "\\",
     "1", ".", "a", "_", ";", "$", "U+00E9", "U+00B2"}

Enumerated == UNION {[1..n -> Alphabet] : n \in 0..MaxLen}

\* The inputs of the unit tests of lexer.rs, and inputs of the same shapes.
SrcEmptyString == <<>>

SrcSingleInteger == <<"2", "4">>

SrcSingleFloat == <<"4", ".", "6", "3">>

SrcSingleString == <<"\"", "H", "e", "l", "l", "o", ",", " ", "W", "o", "r", "l", "d", "!", "\"">>

SrcComplexAccess == <<"a", ".", "b", "-", ">", "c", ".", "d", "-", ">", "e">>

SrcForLoop == <<"f", "o", "r", " ", "(", "i", "n", "t", " ", "i", " ", "=", " ", "0", ";", " ", "i", " ", "<", " ", "n", ";", " ", "+", "+", "i", ")">>

SrcMaximumMunch == <<"f", "o", "r", " ", "f", "o", "r", "e", "i", "g", "n", " ", "a", "u", "t", "o", " ", "a", "u", "t", "o", "m", "a", "t", "i", "c">>

SrcHelloWorld == <<"i", "n", "t", " ", "m", "a", "i", "n", "(", "i", "n", "t", " ", "a", "r", "g", "c", ",", " ", "c", "h", "a", "r", "*", "*", " ", "a", "r", "g", "v", ")", " ", "{", " ", "p", "r", "i", "n", "t", "f", "(", "\"", "H", "e", "l", "l", "o", ",", " ", "W", "o", "r", "l", "d", "!", "\"", ")", ";", " ", "}">>

SrcTwoPoints == <<"1", ".", "2", ".", "3">>

SrcEscapedQuote == <<"\"", "a", "\\", "\"", "b", "\"">>

SrcEscapedBackslash == <<"\"", "a", "\\", "\\", "\"", "b">>

SrcUnterminated == <<"\"", "a", "b", "c">>

SrcBlockComment == <<"/", "*", " ", "x", " ", "*", "/">>

SrcLineComment == <<"/", "/", "a", "b", "\n", "c", "d">>

SrcLineCommentEnd == <<"/", "/", "a", "b", "c">>

SrcSplicedComment == <<"/", "/", "a", "\\", "\n", "b">>

SrcOperators == <<"a", "!", "=", "b", "=", "=", "c", ">", "=", "d", "<", "=", "e", "-", "-", "f">>

SrcBrackets == <<"[", "]", "{", "}", "(", ")", "~", "^", "&", ",", "\t", "U+00A0", "*">>

-----------------------------------------------------------------------------
(* Characters *)

AsciiDigit == {"0", "1", "2", "3", "4", "5", "6", "7", "8", "9"}

AsciiLower ==
    {"a", "b", "c", "d", "e", "f", "g", "h", "i", "j", "k", "l", "m",
     "n", "o", "p", "q", "r", "s", "t", "u", "v", "w", "x", "y", "z"}

AsciiUpper ==
    {"A", "B", "C", "D", "E", "F", "G", "H", "I", "J", "K", "L", "M",
     "N", "O", "P", "Q", "R", "S", "T", "U", "V", "W", "X", "Y", "Z"}

\* char::is_whitespace: the characters with the White_Space property, here
\* space, tab, newline and the no-break space.
is_whitespace(c) == c \in {" ", "\t", "\n", "U+00A0"}

\* char::is_numeric: the general categories Nd, Nl and No, here the ASCII
\* digits and SUPERSCRIPT TWO.
is_numeric(c) == c \in AsciiDigit \cup {"U+00B2"}

\* A faulty is_alphanumeric: is_numeric in its place.
is_numeric_only(c) == is_numeric(c)

\* char::is_alphanumeric: Alphabetic or numeric, here the ASCII letters,
\* LATIN SMALL LETTER E WITH ACUTE and whatever is_numeric accepts.
is_alphanumeric(c) ==
    c \in AsciiLower \cup AsciiUpper \cup {"U+00E9"} \/ is_numeric(c)

-----------------------------------------------------------------------------
(* Tokens and results *)

\* A Token: its variant and its payload (text, a Direction or a
\* TokenKeyword as a one-element sequence, or nothing).
Tok(type, val) == [type |-> type, val |-> val]

NoTok == Tok("", <<>>)

\* Result<_, LexerError> together with the cursor the call leaves behind.
Ok(i, tok) == [err |-> "Ok", index |-> i, tok |-> tok]

Err(e, i) == [err |-> e, index |-> i, tok |-> NoTok]

\* Option<Result<Token, LexerError>>, and the value of item before any pull.
None == [res |-> "None", type |-> "", val |-> <<>>]

SomeOk(tok) == [res |-> "Ok", type |-> tok.type, val |-> tok.val]

SomeErr(e) == [res |-> "Err", type |-> e, val |-> <<>>]

NotPulled == [res |-> "NotPulled", type |-> "", val |-> <<>>]

-----------------------------------------------------------------------------
(* Lexer primitives *)

peek(i) ==
    IF i < Len(source)
    THEN [err |-> "Ok", c |-> source[i + 1]]
    ELSE [err |-> "EndOfFileReached", c |-> ""]

\* A faulty finished: the cursor has to be past the end.
finished_past(i) == Len(source) < i

finished(i) == Len(source) = i

\* A faulty eat: the cursor is advanced whether or not a character is there.
eat_blind(i, c) ==
    LET p == peek(i)
    IN  IF p.err = "Ok" /\ p.c # c THEN Err("CharacterMismatch", i)
        ELSE Ok(i + 1, NoTok)

eat(i, c) ==
    LET p == peek(i)
    IN  IF p.err # "Ok" THEN Err(p.err, i)
        ELSE IF p.c = c THEN Ok(i + 1, NoTok)
        ELSE Err("CharacterMismatch", i)

\* A faulty trim_leading_whitespace: an if in place of the while.
trim_one_whitespace(i) ==
    LET p == peek(i)
    IN  IF p.err = "Ok" /\ is_whitespace(p.c) THEN eat(i, p.c) ELSE Ok(i, NoTok)

RECURSIVE trim_leading_whitespace(_)
trim_leading_whitespace(i) ==
    LET p == peek(i)
    IN  IF p.err = "Ok" /\ is_whitespace(p.c)
        THEN LET e == eat(i, p.c)
             IN  IF e.err # "Ok" THEN e ELSE trim_leading_whitespace(e.index)
        ELSE Ok(i, NoTok)

\* The loop of eat_until; the text is returned as the payload of a token.
RECURSIVE eat_until_loop(_, _, _, _)
eat_until_loop(i, goal, result, espaced) ==
    LET p == peek(i)
    IN  IF p.err # "Ok" THEN Ok(i, Tok("", result))
        ELSE LET e == eat(i, p.c)
             IN  IF e.err # "Ok" THEN e
                 ELSE IF ~espaced /\ p.c = goal THEN Ok(e.index, Tok("", result))
                 ELSE eat_until_loop(e.index, goal, Append(result, p.c), p.c = "\\")

\* A faulty eat_until: the goal character is pushed onto the result too.
RECURSIVE eat_until_keeps_goal_loop(_, _, _, _)
eat_until_keeps_goal_loop(i, goal, result, espaced) ==
    LET p == peek(i)
    IN  IF p.err # "Ok" THEN Ok(i, Tok("", result))
        ELSE LET e == eat(i, p.c)
             IN  IF e.err # "Ok" THEN e
                 ELSE IF ~espaced /\ p.c = goal
                 THEN Ok(e.index, Tok("", Append(result, p.c)))
                 ELSE eat_until_keeps_goal_loop(e.index, goal, Append(result, p.c), p.c = "\\")

eat_until_keeps_goal(i, goal) == eat_until_keeps_goal_loop(i, goal, <<>>, FALSE)

\* A faulty eat_until: running out of input before the goal is an error.
RECURSIVE eat_until_strict_loop(_, _, _, _)
eat_until_strict_loop(i, goal, result, espaced) ==
    LET p == peek(i)
    IN  IF p.err # "Ok" THEN Err(p.err, i)
        ELSE LET e == eat(i, p.c)
             IN  IF e.err # "Ok" THEN e
                 ELSE IF ~espaced /\ p.c = goal THEN Ok(e.index, Tok("", result))
                 ELSE eat_until_strict_loop(e.index, goal, Append(result, p.c), p.c = "\\")

eat_until_strict(i, goal) == eat_until_strict_loop(i, goal, <<>>, FALSE)

eat_until(i, goal) == eat_until_loop(i, goal, <<>>, FALSE)

eat_line(i) == eat_until(i, "\n")

eat_string_literal(i) ==
    LET e == eat(i, "\"")
    IN  IF e.err # "Ok" THEN e ELSE eat_until(e.index, "\"")

RECURSIVE eat_number_loop(_, _, _)
eat_number_loop(i, result, period_passed) ==
    LET p == peek(i)
    IN  IF p.err # "Ok" THEN Ok(i, Tok("", result))
        ELSE IF p.c = "."
        THEN IF period_passed THEN Err("InvalidNumber", i)
             ELSE LET e == eat(i, p.c)
                  IN  IF e.err # "Ok" THEN e
                      ELSE eat_number_loop(e.index, Append(result, p.c), TRUE)
        ELSE IF is_numeric(p.c)
        THEN LET e == eat(i, p.c)
             IN  IF e.err # "Ok" THEN e
                 ELSE eat_number_loop(e.index, Append(result, p.c), period_passed)
        ELSE Ok(i, Tok("", result))

\* A faulty eat_number_literal: the decimal point is eaten before
\* period_passed is looked at.
RECURSIVE eat_number_late_loop(_, _, _)
eat_number_late_loop(i, result, period_passed) ==
    LET p == peek(i)
    IN  IF p.err # "Ok" THEN Ok(i, Tok("", result))
        ELSE IF p.c = "."
        THEN LET e == eat(i, p.c)
             IN  IF e.err # "Ok" THEN e
                 ELSE IF period_passed THEN Err("InvalidNumber", e.index)
                 ELSE eat_number_late_loop(e.index, Append(result, p.c), TRUE)
        ELSE IF is_numeric(p.c)
        THEN LET e == eat(i, p.c)
             IN  IF e.err # "Ok" THEN e
                 ELSE eat_number_late_loop(e.index, Append(result, p.c), period_passed)
        ELSE Ok(i, Tok("", result))

eat_number_literal_late(i) == eat_number_late_loop(i, <<>>, FALSE)

eat_number_literal(i) == eat_number_loop(i, <<>>, FALSE)

RECURSIVE eat_alphanumeric_loop(_, _)
eat_alphanumeric_loop(i, result) ==
    LET p == peek(i)
    IN  IF p.err # "Ok" THEN Ok(i, Tok("", result))
        ELSE IF p.c # "_" /\ ~is_alphanumeric(p.c) THEN Ok(i, Tok("", result))
        ELSE LET e == eat(i, p.c)
             IN  IF e.err # "Ok" THEN e
                 ELSE eat_alphanumeric_loop(e.index, Append(result, p.c))

\* A faulty eat_alphanumeric: the underscore ends the word.
RECURSIVE eat_alphanumeric_only_loop(_, _)
eat_alphanumeric_only_loop(i, result) ==
    LET p == peek(i)
    IN  IF p.err # "Ok" THEN Ok(i, Tok("", result))
        ELSE IF p.c = "_" \/ ~is_alphanumeric(p.c) THEN Ok(i, Tok("", result))
        ELSE LET e == eat(i, p.c)
             IN  IF e.err # "Ok" THEN e
                 ELSE eat_alphanumeric_only_loop(e.index, Append(result, p.c))

eat_alphanumeric_only(i) == eat_alphanumeric_only_loop(i, <<>>)

eat_alphanumeric(i) == eat_alphanumeric_loop(i, <<>>)

-----------------------------------------------------------------------------
(* Keywords *)

\* TokenKeyword::from: the keyword a string is exactly, or "" for None.
TokenKeyword_from(keyword) ==
    CASE keyword = <<"i", "f">> -> "If"
      [] keyword = <<"e", "l", "s", "e">> -> "Else"
      [] keyword = <<"r", "e", "t", "u", "r", "n">> -> "Return"
      [] keyword = <<"u", "n", "s", "i", "g", "n", "e", "d">> -> "Unsigned"
      [] keyword = <<"f", "o", "r">> -> "For"
      [] keyword = <<"w", "h", "i", "l", "e">> -> "While"
      [] keyword = <<"d", "o">> -> "Do"
      [] keyword = <<"g", "o", "t", "o">> -> "Goto"
      [] keyword = <<"s", "w", "i", "t", "c", "h">> -> "Switch"
      [] keyword = <<"c", "a", "s", "e">> -> "Case"
      [] keyword = <<"c", "o", "n", "s", "t">> -> "Const"
      [] keyword = <<"v", "o", "l", "a", "t", "i", "l", "e">> -> "Volatile"
      [] keyword = <<"e", "x", "t", "e", "r", "n", "a", "l">> -> "External"
      [] keyword = <<"s", "t", "a", "t", "i", "c">> -> "Static"
      [] keyword = <<"a", "u", "t", "o">> -> "Auto"
      [] keyword = <<"s", "t", "r", "u", "c", "t">> -> "Struct"
      [] keyword = <<"u", "n", "i", "o", "n">> -> "Union"
      [] OTHER -> ""

\* The table of TokenKeyword::from, as a set of words.
KeywordWords ==
    {<<"i", "f">>, <<"e", "l", "s", "e">>, <<"r", "e", "t", "u", "r", "n">>,
     <<"u", "n", "s", "i", "g", "n", "e", "d">>, <<"f", "o", "r">>,
     <<"w", "h", "i", "l", "e">>, <<"d", "o">>, <<"g", "o", "t", "o">>,
     <<"s", "w", "i", "t", "c", "h">>, <<"c", "a", "s", "e">>,
     <<"c", "o", "n", "s", "t">>, <<"v", "o", "l", "a", "t", "i", "l", "e">>,
     <<"e", "x", "t", "e", "r", "n", "a", "l">>, <<"s", "t", "a", "t", "i", "c">>,
     <<"a", "u", "t", "o">>, <<"s", "t", "r", "u", "c", "t">>,
     <<"u", "n", "i", "o", "n">>}

-----------------------------------------------------------------------------
(* next_token, branch by branch *)

Plain(type) == Tok(type, <<>>)

\* A faulty '+' branch: the second '+' is never tried.
next_plus_short(i) ==
    LET a == eat(i, "+")
    IN  IF a.err # "Ok" THEN a ELSE Ok(a.index, Plain("Plus"))

next_plus(i) ==
    LET a == eat(i, "+")
    IN  IF a.err # "Ok" THEN a
        ELSE LET b == eat(a.index, "+")
             IN  IF b.err = "Ok" THEN Ok(b.index, Plain("PlusPlus"))
                 ELSE Ok(a.index, Plain("Plus"))

\* A faulty '-' branch: the '>' of an arrow is never tried.
next_minus_no_arrow(i) ==
    LET a == eat(i, "-")
    IN  IF a.err # "Ok" THEN a
        ELSE LET b == eat(a.index, "-")
             IN  IF b.err = "Ok" THEN Ok(b.index, Plain("MinusMinus"))
                 ELSE Ok(a.index, Plain("Minus"))

\* A faulty '-' branch: the probes for the second character use `?`.
next_minus_strict(i) ==
    LET a == eat(i, "-")
    IN  IF a.err # "Ok" THEN a
        ELSE LET b == eat(a.index, "-")
                 c == eat(a.index, ">")
             IN  IF b.err = "Ok" THEN Ok(b.index, Plain("MinusMinus"))
                 ELSE IF c.err = "Ok" THEN Ok(c.index, Plain("Arrow"))
                 ELSE c

next_minus(i) ==
    LET a == eat(i, "-")
    IN  IF a.err # "Ok" THEN a
        ELSE LET b == eat(a.index, "-")
                 c == eat(a.index, ">")
             IN  IF b.err = "Ok" THEN Ok(b.index, Plain("MinusMinus"))
                 ELSE IF c.err = "Ok" THEN Ok(c.index, Plain("Arrow"))
                 ELSE Ok(a.index, Plain("Minus"))

next_slash(i) ==
    LET a == eat(i, "/")
    IN  IF a.err # "Ok" THEN a
        ELSE LET b == eat(a.index, "/")
                 c == eat(a.index, "*")
             IN  IF b.err = "Ok"
                 THEN LET comment == eat_line(b.index)
                      IN  IF comment.err # "Ok" THEN comment
                          ELSE Ok(comment.index, Tok("SlashSlash", comment.tok.val))
                 ELSE IF c.err = "Ok" THEN Ok(c.index, Tok("SlashStar", <<>>))
                 ELSE Ok(a.index, Plain("Slash"))

next_bang(i) ==
    LET a == eat(i, "!")
    IN  IF a.err # "Ok" THEN a
        ELSE LET b == eat(a.index, "=")
             IN  IF b.err = "Ok" THEN Ok(b.index, Plain("BangEqual"))
                 ELSE Ok(a.index, Plain("Bang"))

next_equal(i) ==
    LET a == eat(i, "=")
    IN  IF a.err # "Ok" THEN a
        ELSE LET b == eat(a.index, "=")
             IN  IF b.err = "Ok" THEN Ok(b.index, Plain("EqualEqual"))
                 ELSE Ok(a.index, Plain("Equal"))

next_greater(i) ==
    LET a == eat(i, ">")
    IN  IF a.err # "Ok" THEN a
        ELSE LET b == eat(a.index, "=")
             IN  IF b.err = "Ok" THEN Ok(b.index, Plain("GreaterEqual"))
                 ELSE Ok(a.index, Plain("Greater"))

next_less(i) ==
    LET a == eat(i, "<")
    IN  IF a.err # "Ok" THEN a
        ELSE LET b == eat(a.index, "=")
             IN  IF b.err = "Ok" THEN Ok(b.index, Plain("LessEqual"))
                 ELSE Ok(a.index, Plain("Less"))

\* A faulty single-character branch: the token is yielded, nothing is eaten.
next_single_stay(i, c, tok) == Ok(i, tok)

\* The branches that eat their one character and yield its token.
next_single(i, c, tok) ==
    LET a == eat(i, c)
    IN  IF a.err # "Ok" THEN a ELSE Ok(a.index, tok)

next_str(i) ==
    LET s == eat_string_literal(i)
    IN  IF s.err # "Ok" THEN s ELSE Ok(s.index, Tok("Str", s.tok.val))

\* A faulty digit branch: a trailing decimal point is dropped from the text.
next_number_trimmed(i) ==
    LET n == eat_number_literal(i)
        text == n.tok.val
    IN  IF n.err # "Ok" THEN n
        ELSE IF text # <<>> /\ text[Len(text)] = "."
        THEN Ok(n.index, Tok("Number", SubSeq(text, 1, Len(text) - 1)))
        ELSE Ok(n.index, Tok("Number", text))

next_number(i) ==
    LET n == eat_number_literal(i)
    IN  IF n.err # "Ok" THEN n ELSE Ok(n.index, Tok("Number", n.tok.val))

\* A faulty word branch: the keyword table is never consulted.
next_word_identifier(i) ==
    LET result == eat_alphanumeric(i)
    IN  IF result.err # "Ok" THEN result
        ELSE Ok(result.index, Tok("Identifier", result.tok.val))

next_word(i) ==
    LET result == eat_alphanumeric(i)
    IN  IF result.err # "Ok" THEN result
        ELSE LET keyword == TokenKeyword_from(result.tok.val)
             IN  IF keyword # "" THEN Ok(result.index, Tok("Keyword", <<keyword>>))
                 ELSE Ok(result.index, Tok("Identifier", result.tok.val))

\* The match of next_token on the character under the cursor.
dispatch(i, c) ==
    CASE c = "+" -> next_plus(i)
      [] c = "-" -> next_minus(i)
      [] c = "*" -> next_single(i, "*", Plain("Star"))
      [] c = "/" -> next_slash(i)
      [] c = "!" -> next_bang(i)
      [] c = "~" -> next_single(i, "~", Plain("Tilde"))
      [] c = "^" -> next_single(i, "^", Plain("Caret"))
      [] c = "=" -> next_equal(i)
      [] c = ">" -> next_greater(i)
      [] c = "<" -> next_less(i)
      [] c = "(" -> next_single(i, "(", Tok("Parenthesis", <<"Left">>))
      [] c = ")" -> next_single(i, ")", Tok("Parenthesis", <<"Right">>))
      [] c = "{" -> next_single(i, "{", Tok("Brace", <<"Left">>))
      [] c = "}" -> next_single(i, "}", Tok("Brace", <<"Right">>))
      [] c = "[" -> next_single(i, "[", Tok("Bracket", <<"Left">>))
      [] c = "]" -> next_single(i, "]", Tok("Bracket", <<"Right">>))
      [] c = ";" -> next_single(i, ";", Plain("Semicolon"))
      [] c = "&" -> next_single(i, "&", Plain("Ampersand"))
      [] c = "," -> next_single(i, ",", Plain("Comma"))
      [] c = "." -> next_single(i, ".", Plain("Dot"))
      [] c = "\"" -> next_str(i)
      [] c \in AsciiDigit -> next_number(i)
      [] c \in AsciiLower \cup AsciiUpper \cup {"_"} -> next_word(i)
      [] OTHER -> Err("UnknownCharacter", i)

next_token(i) ==
    LET t == trim_leading_whitespace(i)
    IN  IF t.err # "Ok" THEN t
        ELSE LET p == peek(t.index)
             IN  IF p.err # "Ok" THEN Err(p.err, t.index)
                 ELSE dispatch(t.index, p.c)

\* A faulty Iterator::next: the sequence ends at the first error.
next_ends_on_error(r) ==
    IF r.err = "Ok" THEN SomeOk(r.tok) ELSE None

\* A faulty Iterator::next: the end of the input is yielded as an error item.
next_no_end(r) ==
    IF r.err = "Ok" THEN SomeOk(r.tok) ELSE SomeErr(r.err)

\* Iterator::next: what it returns, given the result of next_token.
next(r) ==
    IF r.err = "Ok" THEN SomeOk(r.tok)
    ELSE IF r.err = "EndOfFileReached"
    THEN IF finished(r.index) THEN None ELSE SomeErr("EndOfFileReached")
    ELSE SomeErr(r.err)

-----------------------------------------------------------------------------
(* The state machine *)

\* Words around every keyword of the table: the keyword, the keyword
\* continued, cut short, prefixed, and followed by a continued copy.
KeywordSources ==
    UNION {{k,
            k \o <<"s">>,
            k \o <<"_">>,
            k \o <<"1">>,
            SubSeq(k, 1, Len(k) - 1),
            <<"_">> \o k,
            k \o <<"(">> \o k,
            k \o <<" ">> \o k \o <<"e", "i", "g", "n">>} : k \in KeywordWords}

TestSources ==
    {SrcEmptyString, SrcSingleInteger, SrcSingleFloat, SrcSingleString,
     SrcComplexAccess, SrcForLoop, SrcMaximumMunch, SrcHelloWorld,
     SrcTwoPoints, SrcEscapedQuote, SrcEscapedBackslash, SrcUnterminated,
     SrcBlockComment, SrcLineComment, SrcLineCommentEnd, SrcSplicedComment,
     SrcOperators, SrcBrackets}

Sources == Enumerated \cup TestSources \cup KeywordSources

\* Lexer::new on any of the sources.
Init ==
    /\ source \in Sources
    /\ index = 0
    /\ item = NotPulled
    /\ out = <<>>
    /\ prev = 0
    /\ lead = 0
    /\ odd = FALSE

\* One call of Iterator::next by the consumer.
Pull ==
    /\ Len(out) < Len(source) + MaxExtra
    /\ LET r == next_token(index)
           it == next(r)
       IN  /\ index' = r.index
           /\ item' = it
           /\ out' = IF it = None THEN out ELSE Append(out, it)
           /\ prev' = index
           /\ lead' = trim_leading_whitespace(index).index
    /\ odd' = ~odd
    /\ UNCHANGED source

Next == Pull

Spec == Init /\ [][Next]_vars

\* One call of Iterator::next by a consumer that collects until the end of
\* the sequence and so never stops pulling of its own accord; out keeps
\* the first Len(source) + MaxExtra items only.
PullOn ==
    /\ LET r == next_token(index)
           it == next(r)
       IN  /\ index' = r.index
           /\ item' = it
           /\ out' = IF it = None \/ Len(out) >= Len(source) + MaxExtra
                     THEN out ELSE Append(out, it)
           /\ prev' = index
           /\ lead' = trim_leading_whitespace(index).index
    /\ odd' = ~odd
    /\ UNCHANGED source

\* Lexer::new on any of the shorter sources.
LiveInit == Init /\ Len(source) < MaxLen

\* The lexer driven by such a consumer: a pull that can be made is made.
LiveSpec == LiveInit /\ [][PullOn]_vars /\ WF_vars(PullOn)

-----------------------------------------------------------------------------
(* Reading the source text, for the properties below *)

Pulled == item # NotPulled

\* The character at 0-based position k.
At(k) == source[k + 1]

\* The characters at positions from..to-1.
Text(from, to) == SubSeq(source, from + 1, to)

HasLead == Pulled /\ lead < Len(source)

\* The first position at or after from that Acc does not accept, or the
\* length of the source.
RunEnd(from, Acc(_)) ==
    CHOOSE j \in from..Len(source) :
        /\ \A k \in from..(j - 1) : Acc(k)
        /\ j = Len(source) \/ ~Acc(j)

\* The number of consecutive backslashes right before position k, counted
\* no further back than from.
BackslashesBefore(from, k) ==
    CHOOSE n \in 0..(k - from) :
        /\ \A m \in 1..n : At(k - m) = "\\"
        /\ n = k - from \/ At(k - n - 1) # "\\"

\* Position k holds goal and the backslash before it, if any, is itself
\* escaped: an even number of backslashes precedes it.
Unescaped(from, k, goal) ==
    /\ At(k) = goal
    /\ BackslashesBefore(from, k) % 2 = 0

UnescapedAt(from, goal) ==
    {k \in from..(Len(source) - 1) : Unescaped(from, k, goal)}

Least(S) == CHOOSE k \in S : \A m \in S : k <= m

-----------------------------------------------------------------------------
(* C1 *)

AllWhitespace == \A k \in 1..Len(source) : is_whitespace(source[k])

\* C1: on a source made only of whitespace (the empty source too) no pull
\* ever yields an item: every pull made returned end-of-sequence.
C1_WhitespaceYieldsNothing ==
    AllWhitespace => out = <<>> /\ item \in {NotPulled, None}

C1_Witness ==
    /\ AllWhitespace
    /\ Len(source) >= 2
    /\ item = None
    /\ index = Len(source)

-----------------------------------------------------------------------------
(* C2 *)

LeadOps == {"+", "-", "!", "=", ">", "<"}

\* The two-character operators, by lead and second character.
LongOp(c, d) ==
    CASE c = "+" /\ d = "+" -> "PlusPlus"
      [] c = "-" /\ d = "-" -> "MinusMinus"
      [] c = "-" /\ d = ">" -> "Arrow"
      [] c = "!" /\ d = "=" -> "BangEqual"
      [] c = "=" /\ d = "=" -> "EqualEqual"
      [] c = ">" /\ d = "=" -> "GreaterEqual"
      [] c = "<" /\ d = "=" -> "LessEqual"
      [] OTHER -> ""

ShortOp(c) ==
    CASE c = "+" -> "Plus"
      [] c = "-" -> "Minus"
      [] c = "!" -> "Bang"
      [] c = "=" -> "Equal"
      [] c = ">" -> "Greater"
      [] c = "<" -> "Less"

\* C2: a pull whose lead character is one of + - ! = > < yields the
\* two-character operator and consumes both characters when the next
\* character completes one, and yields the one-character operator,
\* consuming one character, only when it does not or the input has ended.
C2_OperatorMaximalMunch ==
    (HasLead /\ At(lead) \in LeadOps) =>
        LET long == IF lead + 1 < Len(source)
                    THEN LongOp(At(lead), At(lead + 1)) ELSE ""
        IN  IF long # ""
            THEN item = SomeOk(Plain(long)) /\ index = lead + 2
            ELSE item = SomeOk(Plain(ShortOp(At(lead)))) /\ index = lead + 1

\* "+++": one PlusPlus, then Plus because the input has ended.
C2_Witness ==
    /\ source = <<"+", "+", "+">>
    /\ out = <<SomeOk(Plain("PlusPlus")), SomeOk(Plain("Plus"))>>
    /\ index = 3

-----------------------------------------------------------------------------
(* C3 *)

\* The reserved words of the keyword table, each with its Keyword variant.
KeywordTable ==
    {<<<<"i", "f">>, "If">>, <<<<"e", "l", "s", "e">>, "Else">>,
     <<<<"r", "e", "t", "u", "r", "n">>, "Return">>,
     <<<<"u", "n", "s", "i", "g", "n", "e", "d">>, "Unsigned">>,
     <<<<"f", "o", "r">>, "For">>, <<<<"d", "o">>, "Do">>,
     <<<<"w", "h", "i", "l", "e">>, "While">>,
     <<<<"g", "o", "t", "o">>, "Goto">>,
     <<<<"s", "w", "i", "t", "c", "h">>, "Switch">>,
     <<<<"c", "a", "s", "e">>, "Case">>,
     <<<<"c", "o", "n", "s", "t">>, "Const">>,
     <<<<"v", "o", "l", "a", "t", "i", "l", "e">>, "Volatile">>,
     <<<<"e", "x", "t", "e", "r", "n", "a", "l">>, "External">>,
     <<<<"s", "t", "a", "t", "i", "c">>, "Static">>,
     <<<<"a", "u", "t", "o">>, "Auto">>,
     <<<<"s", "t", "r", "u", "c", "t">>, "Struct">>,
     <<<<"u", "n", "i", "o", "n">>, "Union">>}

WordStart(c) == c \in AsciiLower \cup AsciiUpper \cup {"_"}

WordChar(k) == At(k) = "_" \/ is_alphanumeric(At(k))

-----------------------------------------------------------------------------
(* C4 *)

StrLead == HasLead /\ At(lead) = "\""

\* C4: a string literal ends at the first quote after the opening one that
\* is not preceded by an unescaped backslash; a quote after an escaped
\* backslash (two consecutive backslashes) ends it.
C4_EndsAtFirstUnescapedQuote ==
    (StrLead /\ UnescapedAt(lead + 1, "\"") # {}) =>
        LET q == Least(UnescapedAt(lead + 1, "\""))
        IN  /\ item.res = "Ok"
            /\ item.type = "Str"
            /\ index = q + 1
            /\ Len(item.val) = q - (lead + 1)

-----------------------------------------------------------------------------
(* C5 *)

\* C5: the text of a yielded Str is exactly the source characters after
\* the opening quote, backslashes kept; when the scan stopped at a quote,
\* it is the text strictly between the two quotes and the cursor is one
\* past the closing quote.
C5_StrPayloadVerbatim ==
    (Pulled /\ item.res = "Ok" /\ item.type = "Str") =>
        LET n == Len(item.val)
        IN  /\ StrLead
            /\ item.val = Text(lead + 1, lead + 1 + n)
            /\ \/ index = lead + n + 2 /\ At(index - 1) = "\""
               \/ index = lead + n + 1 /\ index = Len(source)

\* A literal closed by a quote whose text holds a backslash and a quote.
C5_Witness ==
    /\ source = SrcEscapedQuote
    /\ item = SomeOk(Tok("Str", <<"a", "\\", "\"", "b">>))
    /\ index = lead + Len(item.val) + 2
    /\ At(index - 1) = "\""

-----------------------------------------------------------------------------
(* C6, C7 *)

NumberLead == HasLead /\ At(lead) \in AsciiDigit

\* A numeric character, or a decimal point with none before it in the
\* literal that starts at lead.
NumberChar(k) ==
    \/ is_numeric(At(k))
    \/ At(k) = "." /\ \A m \in lead..(k - 1) : At(m) # "."

NumberEnd == RunEnd(lead, NumberChar)

SecondPoint == NumberEnd < Len(source) /\ At(NumberEnd) = "."

\* C6 as stated: a pull whose lead character is a digit yields Number(text)
\* with text the maximal run of digits holding at most one decimal point,
\* the cursor left at the first character outside it.
C6_Original ==
    NumberLead =>
        /\ item = SomeOk(Tok("Number", Text(lead, NumberEnd)))
        /\ index = NumberEnd

\* C6 amended: the same, unless the run is stopped by a second decimal point.
C6_NumberTextRoundTrip ==
    (NumberLead /\ ~SecondPoint) =>
        /\ item = SomeOk(Tok("Number", Text(lead, NumberEnd)))
        /\ index = NumberEnd

\* "4.63" yields Number("4.63").
C6_Witness ==
    /\ source = SrcSingleFloat
    /\ item = SomeOk(Tok("Number", <<"4", ".", "6", "3">>))
    /\ index = 4

\* C7: a numeric literal stopped by a second decimal point yields the
\* error InvalidNumber, not a Number, and the cursor is left at that
\* second decimal point.
C7_SecondPointIsInvalidNumber ==
    (NumberLead /\ SecondPoint) =>
        /\ item = SomeErr("InvalidNumber")
        /\ index = NumberEnd

\* "1.2.3": the first item is InvalidNumber, the cursor at index 3.
C7_Witness ==
    /\ source = SrcTwoPoints
    /\ out = <<SomeErr("InvalidNumber")>>
    /\ item = SomeErr("InvalidNumber")
    /\ index = 3

-----------------------------------------------------------------------------
(* C8 *)

LineLead == HasLead /\ lead + 1 < Len(source) /\ At(lead) = "/" /\ At(lead + 1) = "/"

\* The last pull opened a string literal, or a line comment, that the rest
\* of the input does not close.
UnterminatedStr == StrLead /\ UnescapedAt(lead + 1, "\"") = {}

UnterminatedLine == LineLead /\ UnescapedAt(lead + 2, "\n") = {}

\* C8: a string literal or line comment the input does not close yields no
\* error but Str, or SlashSlash, with all the characters after the opener;
\* the cursor is at the end of the input and the next pull returns
\* end-of-sequence.
C8_UnterminatedIsLenient ==
    [][/\ UnterminatedStr' =>
            /\ item' = SomeOk(Tok("Str", Text(lead' + 1, Len(source))))
            /\ index' = Len(source)
       /\ UnterminatedLine' =>
            /\ item' = SomeOk(Tok("SlashSlash", Text(lead' + 2, Len(source))))
            /\ index' = Len(source)
       /\ (UnterminatedStr \/ UnterminatedLine) =>
            /\ item' = None
            /\ index' = index
            /\ out' = out]_vars

\* The input "abc with no closing quote: Str("abc"), then the end.
C8_Witness ==
    /\ source = SrcUnterminated
    /\ out = <<SomeOk(Tok("Str", <<"a", "b", "c">>))>>
    /\ item = None
    /\ index = 4

-----------------------------------------------------------------------------
(* C9 *)

BlockLead == HasLead /\ lead + 1 < Len(source) /\ At(lead) = "/" /\ At(lead + 1) = "*"

\* The positions after the opener where a closing */ starts.
BlockClosers ==
    {k \in (lead + 2)..(Len(source) - 2) : At(k) = "*" /\ At(k + 1) = "/"}

\* C9: a pull at /* yields SlashStar with an empty body and consumes the
\* comment, so that its body and its closing */ are not scanned as tokens.
C9_BlockCommentConsumed ==
    BlockLead =>
        /\ item = SomeOk(Tok("SlashStar", <<>>))
        /\ BlockClosers # {} => index = Least(BlockClosers) + 2

-----------------------------------------------------------------------------
(* C10 *)

Newlines == {k \in (lead + 2)..(Len(source) - 1) : At(k) = "\n"}

\* C10: a pull at // yields SlashSlash with the characters after // up to,
\* not including, the newline that ends the line; the newline is consumed
\* and the next pull starts at the first character of the following line.
C10_LineCommentEndsAtNewline ==
    (LineLead /\ Newlines # {}) =>
        LET k == Least(Newlines)
        IN  /\ item = SomeOk(Tok("SlashSlash", Text(lead + 2, k)))
            /\ index = k + 1

-----------------------------------------------------------------------------
(* C11 *)

Whitespace(k) == is_whitespace(At(k))

\* C11: a pull returns end-of-sequence exactly when only whitespace lies
\* between the cursor and the end of the source; and after a pull has
\* returned end-of-sequence, every later pull returns it again and leaves
\* the cursor where it was.
C11_EndExactlyAtEndOfInput ==
    [][/\ item' = None <=> RunEnd(index, Whitespace) = Len(source)
       /\ item' = None => index' = Len(source)
       /\ item = None => item' = None /\ index' = index]_vars

\* "a " : Identifier, then the end twice over, the trailing space skipped.
C11_Witness ==
    /\ source = <<"a", " ">>
    /\ out = <<SomeOk(Tok("Identifier", <<"a">>))>>
    /\ item = None
    /\ prev = 2
    /\ index = 2

-----------------------------------------------------------------------------
(* C12 *)

\* C12: for every source the sequence of items is finite: a consumer that
\* keeps pulling is returned end-of-sequence after finitely many pulls.
C12_SequenceIsFinite == <>(item = None)

-----------------------------------------------------------------------------
(* C13 *)

\* Every character a source may hold.
Chars == {source[k] : k \in 1..Len(source)} \cup Alphabet

\* eat at any cursor, for any character: the cursor moves by exactly one
\* when the character is there and not at all otherwise.
EatMovesByOne ==
    \A i \in 0..Len(source) : \A c \in Chars :
        LET e == eat(i, c)
        IN  /\ e.err = "Ok" <=> (i < Len(source) /\ At(i) = c)
            /\ e.index = IF e.err = "Ok" THEN i + 1 ELSE i

\* C13: the cursor stays within 0..length(source), no pull of any
\* outcome moves it backward, and eat, the one operation that moves it,
\* moves it by exactly one character.
C13_CursorInvariant ==
    /\ [](index \in 0..Len(source) /\ EatMovesByOne)
    /\ [][index' >= index]_vars

\* A pull that moved the cursor over several characters up to the end.
C13_Witness ==
    /\ Pulled
    /\ index = Len(source)
    /\ index >= prev + 3

-----------------------------------------------------------------------------
(* C14 *)

\* The lead characters whose branch probes for an optional second one.
ProbeLeads == LeadOps \cup {"/"}

\* C14: no item the iterator yields is the error CharacterMismatch; a pull
\* whose lead character has an optional second character yields a token
\* whether or not the probe for it fails.
C14_MismatchNeverYielded ==
    /\ \A k \in 1..Len(out) : out[k] # SomeErr("CharacterMismatch")
    /\ item # SomeErr("CharacterMismatch")
    /\ (HasLead /\ At(lead) \in ProbeLeads) => item.res = "Ok"

\* "-a": both probes of the '-' branch fail on a, and Minus is yielded.
C14_Witness ==
    /\ source = <<"-", "a">>
    /\ item = SomeOk(Plain("Minus"))
    /\ index = 1

-----------------------------------------------------------------------------
(* C15 *)

\* A letter: an alphabetic character, ASCII or not.
Letter(c) == c \in AsciiLower \cup AsciiUpper \cup {"U+00E9"}

IsWord == item.res = "Ok" /\ item.type \in {"Keyword", "Identifier"}

\* C15 as stated: a pull whose lead character is a letter or an underscore
\* yields a Keyword or an Identifier, never UnknownCharacter.
C15_Original ==
    (HasLead /\ (Letter(At(lead)) \/ At(lead) = "_")) => IsWord

\* C15 amended: the same for an ASCII letter or an underscore; these are
\* the only characters a word starts with, and each is a character
\* eat_alphanumeric accepts, so the word holds at least its lead.
C15_WordLead ==
    /\ (HasLead /\ WordStart(At(lead))) => IsWord /\ index > lead
    /\ (HasLead /\ IsWord) => WordStart(At(lead))
    /\ \A c \in Chars : WordStart(c) => c = "_" \/ is_alphanumeric(c)

\* "_a": a word led by an underscore.
C15_Witness ==
    /\ source = <<"_", "a">>
    /\ item = SomeOk(Tok("Identifier", <<"_", "a">>))
    /\ index = 2

-----------------------------------------------------------------------------
(* C16 *)

Ident(text) == SomeOk(Tok("Identifier", text))

Op(type) == SomeOk(Plain(type))

ComplexAccessTokens ==
    <<Ident(<<"a">>), Op("Dot"), Ident(<<"b">>), Op("Arrow"), Ident(<<"c">>),
      Op("Dot"), Ident(<<"d">>), Op("Arrow"), Ident(<<"e">>)>>

\* The items yielded so far are the first of expected, and all of them once
\* end-of-sequence was returned.
Yields(expected) ==
    /\ Len(out) <= Len(expected)
    /\ out = SubSeq(expected, 1, Len(out))
    /\ item = None => out = expected /\ index = Len(source)

\* C16: a.b->c.d->e yields Identifier a, Dot, Identifier b, Arrow,
\* Identifier c, Dot, Identifier d, Arrow, Identifier e and then the end,
\* with no error item; in any source a pull at . yields Dot, a pull at ->
\* yields one Arrow, and an identifier next to them is one Identifier
\* that ends where the . or - begins.
C16_MemberAccess ==
    /\ source = SrcComplexAccess => Yields(ComplexAccessTokens)
    /\ (HasLead /\ At(lead) = ".") => item = Op("Dot") /\ index = lead + 1
    /\ (HasLead /\ lead + 1 < Len(source) /\ At(lead) = "-" /\ At(lead + 1) = ">")
           => item = Op("Arrow") /\ index = lead + 2
    /\ (HasLead /\ item.res = "Ok" /\ item.type = "Identifier")
           => /\ item.val = Text(lead, index)
              /\ index < Len(source) => ~WordChar(index)

C16_Witness ==
    /\ source = SrcComplexAccess
    /\ out = ComplexAccessTokens
    /\ item = None

-----------------------------------------------------------------------------
(* C17 *)

Paren(direction) == SomeOk(Tok("Parenthesis", <<direction>>))

Brace(direction) == SomeOk(Tok("Brace", <<direction>>))

ForLoopTokens ==
    <<SomeOk(Tok("Keyword", <<"For">>)), Paren("Left"),
      Ident(<<"i", "n", "t">>), Ident(<<"i">>), Op("Equal"),
      SomeOk(Tok("Number", <<"0">>)), Op("Semicolon"),
      Ident(<<"i">>), Op("Less"), Ident(<<"n">>), Op("Semicolon"),
      Op("PlusPlus"), Ident(<<"i">>), Paren("Right")>>

HelloWorldTokens ==
    <<Ident(<<"i", "n", "t">>), Ident(<<"m", "a", "i", "n">>), Paren("Left"),
      Ident(<<"i", "n", "t">>), Ident(<<"a", "r", "g", "c">>), Op("Comma"),
      Ident(<<"c", "h", "a", "r">>), Op("Star"), Op("Star"),
      Ident(<<"a", "r", "g", "v">>), Paren("Right"), Brace("Left"),
      Ident(<<"p", "r", "i", "n", "t", "f">>), Paren("Left"),
      SomeOk(Tok("Str", <<"H", "e", "l", "l", "o", ",", " ", "W", "o", "r", "l", "d", "!">>)),
      Paren("Right"), Op("Semicolon"), Brace("Right")>>

\* C17: for (int i = 0; i < n; ++i) yields Keyword For, Parenthesis Left,
\* Identifier int, Identifier i, Equal, Number 0, Semicolon, Identifier i,
\* Less, Identifier n, Semicolon, PlusPlus, Identifier i, Parenthesis
\* Right and then the end, with no error item (and the source of
\* tests::hello_world its expected tokens); whitespace yields no token:
\* what a pull skips before its token is whitespace only, and the token
\* starts at a character that is not whitespace.
C17_StatementScan ==
    /\ source = SrcForLoop => Yields(ForLoopTokens)
    /\ source = SrcHelloWorld => Yields(HelloWorldTokens)
    /\ Pulled =>
          /\ prev <= lead /\ lead <= index
          /\ \A k \in prev..(lead - 1) : Whitespace(k)
          /\ HasLead => ~Whitespace(lead)
          /\ item.res = "Ok" => HasLead /\ index > lead

C17_Witness ==
    /\ source = SrcForLoop
    /\ out = ForLoopTokens
    /\ item = None

-----------------------------------------------------------------------------
(* C18 *)

\* The characters some scanning rule starts with.
RuleChars ==
    {"+", "-", "*", "/", "!", "~", "^", "=", ">", "<", "(", ")", "{", "}",
     "[", "]", ";", "&", ",", ".", "\""}
        \cup AsciiDigit \cup AsciiLower \cup AsciiUpper \cup {"_"}

Unknown == SomeErr("UnknownCharacter")

-----------------------------------------------------------------------------
(* C19 *)

EndOfFile == SomeErr("EndOfFileReached")

\* C19: the iterator never yields the error EndOfFileReached; from any
\* cursor, next_token fails with it only when nothing but whitespace is
\* left, the cursor then being at the source length, where the pull
\* returns end-of-sequence; a probe or a scanning loop that runs out of
\* input ends its token instead.
C19_EndOfFileNeverYielded ==
    /\ \A k \in 1..Len(out) : out[k] # EndOfFile
    /\ item # EndOfFile
    /\ \A i \in 0..Len(source) :
          LET r == next_token(i)
          IN  /\ r.err = "EndOfFileReached" <=> RunEnd(i, Whitespace) = Len(source)
              /\ r.err = "EndOfFileReached" => finished(r.index) /\ next(r) = None

\* "+": the probe for a second + runs out of input and Plus is yielded.
C19_Witness ==
    /\ source = <<"+">>
    /\ out = <<Op("Plus")>>
    /\ item = None

-----------------------------------------------------------------------------
(* C20 *)

\* The number of tokens among the items yielded so far.
TokenCount == Cardinality({k \in 1..Len(out) : out[k].res = "Ok"})

\* No item yielded so far is an error.
ErrorFree == \A k \in 1..Len(out) : out[k].res = "Ok"

\* C20: a pull that yields a token moves the cursor forward by at least one
\* character; so the tokens yielded never outnumber the characters passed,
\* hence the length of the source, and while no error item has been yielded
\* at most length(source) items precede the end of the sequence: after that
\* many the cursor is at the end and the next pull ends the sequence.
C20_Progress ==
    /\ [][item'.res = "Ok" => index' >= index + 1 /\ index' >= lead' + 1]_vars
    /\ [](/\ TokenCount <= index
          /\ index <= Len(source)
          /\ ErrorFree =>
                /\ Len(out) <= Len(source)
                /\ Len(out) = Len(source) => next(next_token(index)) = None)

\* "*;.": three tokens from three characters, the fourth pull ends.
C20_Witness ==
    /\ source = <<"*", ";", ".">>
    /\ ErrorFree
    /\ Len(out) = Len(source)
    /\ item = None

====
